---- MODULE Spec2Model ----
(***************************************************************************)
(* Model of fedlearner/trainer/bridge.py: the Bridge that synchronises     *)
(* iterations between two trainers.                                        *)
(*                                                                         *)
(* Every Bridge method body runs under `with self._condition` (an RLock    *)
(* inside a threading.Condition), so a method is one atomic step up to the *)
(* next Condition.wait(), which releases the lock completely (also when    *)
(* it is held re-entrantly by start()/commit() around _transmit()).        *)
(* A thread blocked in wait() without a timeout resumes only after a       *)
(* notify_all(); _receive waits with a timeout and so re-checks its        *)
(* condition at any time.                                                  *)
(***************************************************************************)
EXTENDS Integers, Sequences, FiniteSets, TLC

\* ------------------------------------------------------------------ bounds
\* capacity of the outbound queue (stream_queue_size, a constructor argument)
StreamQueueSize == 2
\* iteration ids used by callers and by the peer are 0..MaxIter
MaxIter == 1
\* at most this many messages are ever appended to one outbound queue
MaxEnqueue == 3
\* commit() is not called once next_iter_id has reached this value
MaxNext == 2
\* SpecContend makes at most StreamQueueSize + MaxBlocked enqueue calls
MaxBlocked == 3

\* ------------------------------------------------------------- constants
\* Python's None for the optional iteration ids
None == -1

Bridges == {"A", "B"}
Threads == {"a1", "a2", "a3", "a4", "b1"}
Names == {"loss"}
Payloads == {"P", "Q"}
IterIds == 0..MaxIter

\* the Bridge object a caller thread works on
Owner(t) == IF t = "b1" THEN "B" ELSE "A"
\* the Bridge at the other end of the channel
Peer(b) == IF b = "A" THEN "B" ELSE "A"

\* ------------------------------------------------------------- messages
\* tf.make_tensor_proto / tf.make_ndarray: a value is wrapped into a
\* TensorProto and unwrapped again
MakeTensorProto(x) == <<"TensorProto", x>>
MakeNdarray(tensor) == tensor[2]
NoTensor == <<>>

StartMessage(i) == [kind |-> "start", iter_id |-> i, name |-> "", tensor |-> NoTensor]
CommitMessage(i) == [kind |-> "commit", iter_id |-> i, name |-> "", tensor |-> NoTensor]
DataMessage(i, n, tensor) == [kind |-> "data", iter_id |-> i, name |-> n, tensor |-> tensor]
NoMsg == [kind |-> "none", iter_id |-> None, name |-> "", tensor |-> NoTensor]

\* the requests a peer (or a resending transport) can put on the stream
Requests == {StartMessage(i) : i \in IterIds} \cup {CommitMessage(i) : i \in IterIds} \cup {DataMessage(i, n, MakeTensorProto(x)) : i \in IterIds, n \in Names, x \in Payloads}

\* ---------------------------------------------------------------- calls
NoCall == [op |-> "none", iter_id |-> None, name |-> "", x |-> ""]
CallOf(op, i, n, x) == [op |-> op, iter_id |-> i, name |-> n, x |-> x]
NoResult == [kind |-> "none", val |-> ""]
Returns(v) == [kind |-> "return", val |-> v]
Raises(e) == [kind |-> "raise", val |-> e]
Ok == Returns("None")
AssertionError == Raises("AssertionError")
TerminatedError == Raises("RuntimeError: transmit stream was terminated")
PeerCommittedError == Raises("RuntimeError: peer committed without sending")
PeerTerminatedError == Raises("RuntimeError: peer terminated without sending")

VARIABLES started, terminated, peer_terminated, channel, alive, current_iter_id, next_iter_id, peer_start_iter_id, peer_commit_iter_id, received_data, stream_queue, stream_thread, yielded, sent, enqueued, pc, call, result, commits_done, open_iter, accepted, term_mark, term_returned, waited, script, delivered, applied

vars == <<started, terminated, peer_terminated, channel, alive, current_iter_id, next_iter_id, peer_start_iter_id, peer_commit_iter_id, received_data, stream_queue, stream_thread, yielded, sent, enqueued, pc, call, result, commits_done, open_iter, accepted, term_mark, term_returned, waited, script, delivered, applied>>

lifeVars == <<started, terminated, peer_terminated, channel, alive>>
iterVars == <<current_iter_id, next_iter_id>>
peerVars == <<peer_start_iter_id, peer_commit_iter_id>>
senderVars == <<stream_thread, yielded>>
histVars == <<enqueued, sent>>
threadVars == <<pc, call, result>>

\* ----------------------------------------------------------------- Init
\* Bridge.__init__ (the history variables enqueued, sent, commits_done,
\* open_iter, accepted, term_mark, term_returned, waited and applied record what
\* happened;
\* no action of the Bridge reads them)
InitBridge ==
    /\ started = [b \in Bridges |-> FALSE]
    /\ terminated = [b \in Bridges |-> FALSE]
    /\ peer_terminated = [b \in Bridges |-> FALSE]
    /\ channel = [b \in Bridges |-> "idle"]
    /\ alive = [b \in Bridges |-> TRUE]
    /\ current_iter_id = [b \in Bridges |-> None]
    /\ next_iter_id = [b \in Bridges |-> 0]
    /\ peer_start_iter_id = [b \in Bridges |-> None]
    /\ peer_commit_iter_id = [b \in Bridges |-> None]
    /\ received_data = [b \in Bridges |-> <<>>]
    /\ stream_queue = [b \in Bridges |-> <<>>]
    /\ stream_thread = [b \in Bridges |-> "new"]
    /\ yielded = [b \in Bridges |-> NoMsg]
    /\ sent = [b \in Bridges |-> <<>>]
    /\ enqueued = [b \in Bridges |-> <<>>]
    /\ pc = [t \in Threads |-> "idle"]
    /\ call = [t \in Threads |-> NoCall]
    /\ result = [t \in Threads |-> NoResult]
    /\ commits_done = [b \in Bridges |-> 0]
    /\ open_iter = [b \in Bridges |-> None]
    /\ accepted = [b \in Bridges |-> {}]
    /\ term_mark = [b \in Bridges |-> [enq |-> None, queued |-> None]]
    /\ term_returned = [b \in Bridges |-> "no"]
    /\ waited = [t \in Threads |-> FALSE]
    /\ delivered = [b \in Bridges |-> 0]
    /\ applied = [b \in Bridges |-> {}]

Init ==
    /\ InitBridge
    /\ script = [t \in Threads |-> <<>>]

\* ------------------------------------------------------------- helpers
\* `iter_id in received_data and name in received_data[iter_id]`
Has(rd, i, n) == i \in DOMAIN rd /\ n \in DOMAIN rd[i]

\* received_data[iter_id][name] = data on the defaultdict(dict)
Store(rd, i, n, d) == [k \in (DOMAIN rd) \cup {i} |-> IF k = i THEN [m \in (IF i \in DOMAIN rd THEN DOMAIN rd[i] ELSE {}) \cup {n} |-> IF m = n THEN d ELSE rd[i][m]] ELSE rd[k]]

\* `if iter_id in received_data: del received_data[iter_id]`
Discard(rd, i) == [k \in (DOMAIN rd) \ {i} |-> rd[k]]

\* Condition.notify_all(): every thread blocked in wait() becomes runnable
NotifyAll(pcf, b) == [u \in Threads |-> IF Owner(u) = b /\ pcf[u] = "transmit_wait" THEN "transmit_ready" ELSE pcf[u]]
NotifySender(st, b) == [st EXCEPT ![b] = IF @ = "wait" THEN "ready" ELSE @]

\* the message a start/commit/send call hands to _transmit
MsgOf(c) == IF c.op = "start" THEN StartMessage(c.iter_id) ELSE IF c.op = "commit" THEN CommitMessage(c.iter_id) ELSE DataMessage(c.iter_id, c.name, MakeTensorProto(c.x))

\* ------------------------------------------------------ outbound queue
\* variant: _transmit without its terminated check
TransmitTerminated_unchecked(b) == FALSE

\* `if self._terminated: raise RuntimeError(...)`
TransmitTerminated(b) == terminated[b]

\* variant: the loop waits only once the queue is over its size
QueueFull_beyond(b) == Len(stream_queue[b]) > StreamQueueSize

\* variant: the loop already waits with one free slot left
QueueFull_early(b) == Len(stream_queue[b]) >= StreamQueueSize - 1

\* `while len(self._stream_queue) == self._stream_queue_size: wait()`
QueueFull(b) == Len(stream_queue[b]) = StreamQueueSize

\* _transmit from its while loop on, and what the calling method does once
\* _transmit has returned: commit() discards received_data[iter_id]
transmit_loop(t, c) ==
    LET b == Owner(t) IN
    /\ IF QueueFull(b)
       THEN /\ pc' = [pc EXCEPT ![t] = "transmit_wait"]
            /\ result' = [result EXCEPT ![t] = NoResult]
            /\ UNCHANGED <<stream_queue, stream_thread, received_data>>
       ELSE /\ stream_queue' = [stream_queue EXCEPT ![b] = Append(@, MsgOf(c))]
            /\ stream_thread' = NotifySender(stream_thread, b)
            /\ pc' = NotifyAll([pc EXCEPT ![t] = "returned"], b)
            /\ result' = [result EXCEPT ![t] = Ok]
            /\ received_data' = [received_data EXCEPT ![b] = IF c.op = "commit" THEN Discard(@, c.iter_id) ELSE @]
    /\ UNCHANGED <<lifeVars, peerVars, yielded>>

\* Bridge._transmit, called by start(), commit() and _send()
transmit(t, c) ==
    IF TransmitTerminated(Owner(t))
    THEN /\ pc' = [pc EXCEPT ![t] = "returned"]
         /\ result' = [result EXCEPT ![t] = TerminatedError]
         /\ UNCHANGED <<stream_queue, stream_thread, received_data>>
         /\ UNCHANGED <<lifeVars, peerVars, yielded>>
    ELSE transmit_loop(t, c)

\* a producer woken from Condition.wait() in _transmit re-checks the loop
\* condition (and not self._terminated)
TransmitResume(t) ==
    /\ pc[t] = "transmit_ready"
    /\ alive[Owner(t)]
    /\ transmit_loop(t, call[t])
    /\ UNCHANGED <<call, iterVars>>

\* ------------------------------------------------------- local iteration
\* variant: start() without its assertion
StartPrecondition_unchecked(b) == TRUE

\* `assert self._current_iter_id is None` in start()
StartPrecondition(b) == current_iter_id[b] = None

\* `assert self._current_iter_id is not None` in commit()
CommitPrecondition(b) == current_iter_id[b] # None

\* the caller's AssertionError: nothing was assigned yet
AssertFails(t) ==
    /\ pc' = [pc EXCEPT ![t] = "returned"]
    /\ result' = [result EXCEPT ![t] = AssertionError]
    /\ UNCHANGED <<iterVars, stream_queue, stream_thread, received_data>>
    /\ UNCHANGED <<lifeVars, peerVars, yielded>>

\* Bridge.start
start(t, i) ==
    LET b == Owner(t)
        c == CallOf("start", i, "", "")
    IN
    /\ pc[t] = "idle"
    /\ alive[b]
    /\ call' = [call EXCEPT ![t] = c]
    /\ IF ~StartPrecondition(b)
       THEN AssertFails(t)
       ELSE /\ current_iter_id' = [current_iter_id EXCEPT ![b] = i]
            /\ transmit(t, c)
            /\ UNCHANGED next_iter_id

\* Bridge.commit
commit(t) ==
    LET b == Owner(t)
        c == CallOf("commit", current_iter_id[b], "", "")
    IN
    /\ pc[t] = "idle"
    /\ alive[b]
    /\ next_iter_id[b] < MaxNext
    /\ call' = [call EXCEPT ![t] = c]
    /\ IF ~CommitPrecondition(b)
       THEN AssertFails(t)
       ELSE /\ current_iter_id' = [current_iter_id EXCEPT ![b] = None]
            /\ next_iter_id' = [next_iter_id EXCEPT ![b] = @ + 1]
            /\ transmit(t, c)

\* Bridge.send -> Bridge._send -> Bridge._transmit
send(t, i, n, x) ==
    /\ pc[t] = "idle"
    /\ alive[Owner(t)]
    /\ call' = [call EXCEPT ![t] = CallOf("send", i, n, x)]
    /\ transmit(t, CallOf("send", i, n, x))
    /\ UNCHANGED iterVars

\* the function send_op hands to TensorFlow: it asserts that an iteration
\* is open and sends under the id it reads from _current_iter_id
send_op(t, n, x) ==
    IF current_iter_id[Owner(t)] = None
    THEN /\ pc[t] = "idle"
         /\ alive[Owner(t)]
         /\ call' = [call EXCEPT ![t] = CallOf("send", None, n, x)]
         /\ AssertFails(t)
    ELSE send(t, current_iter_id[Owner(t)], n, x)

\* --------------------------------------------------------- sender thread
\* variant: the generator returns as soon as terminated is set
GeneratorReturns_undrained(b) == terminated[b]

\* `while len(queue) == 0: if self._terminated: return`
GeneratorReturns(b) == Len(stream_queue[b]) = 0 /\ terminated[b]

\* variant: deque.pop(), from the right end
pop(q) == <<q[Len(q)], SubSeq(q, 1, Len(q) - 1)>>

\* deque.popleft(): the message taken and the queue left
popleft(q) == <<Head(q), Tail(q)>>

\* Bridge._stream_generator, one pass of its loop under the lock: it
\* returns (the stream ends and with it _stream_fn), waits, or pops the
\* head of the queue
stream_generator(b) ==
    /\ stream_thread[b] = "ready"
    /\ alive[b]
    /\ IF GeneratorReturns(b)
       THEN /\ stream_thread' = [stream_thread EXCEPT ![b] = "done"]
            /\ UNCHANGED <<stream_queue, yielded, pc>>
       ELSE IF Len(stream_queue[b]) = 0
       THEN /\ stream_thread' = [stream_thread EXCEPT ![b] = "wait"]
            /\ UNCHANGED <<stream_queue, yielded, pc>>
       ELSE /\ yielded' = [yielded EXCEPT ![b] = popleft(stream_queue[b])[1]]
            /\ stream_queue' = [stream_queue EXCEPT ![b] = popleft(@)[2]]
            /\ pc' = NotifyAll(pc, b)
            /\ stream_thread' = [stream_thread EXCEPT ![b] = "yield"]
    /\ UNCHANGED <<lifeVars, iterVars, peerVars, received_data, call, result>>

\* `yield msg`, outside the lock: the message is handed to the transport
stream_yield(b) ==
    /\ stream_thread[b] = "yield"
    /\ alive[b]
    /\ yielded' = [yielded EXCEPT ![b] = NoMsg]
    /\ stream_thread' = [stream_thread EXCEPT ![b] = "ready"]
    /\ UNCHANGED <<lifeVars, iterVars, peerVars, received_data, stream_queue, threadVars>>

\* ------------------------------------------------------------ lifecycle
\* Bridge.connect
connect(t) ==
    LET b == Owner(t) IN
    /\ pc[t] = "idle"
    /\ alive[b]
    /\ call' = [call EXCEPT ![t] = CallOf("connect", None, "", "")]
    /\ pc' = [pc EXCEPT ![t] = "returned"]
    /\ result' = [result EXCEPT ![t] = Ok]
    /\ IF started[b]
       THEN UNCHANGED <<started, channel, stream_thread>>
       ELSE /\ started' = [started EXCEPT ![b] = TRUE]
            /\ channel' = [channel EXCEPT ![b] = "connected"]
            /\ stream_thread' = [stream_thread EXCEPT ![b] = "ready"]
    /\ UNCHANGED <<terminated, peer_terminated, alive, iterVars, peerVars, received_data>>
    /\ UNCHANGED <<stream_queue, yielded>>

\* Bridge.terminate, the part under the lock
terminate(t) ==
    LET b == Owner(t) IN
    /\ pc[t] = "idle"
    /\ alive[b]
    /\ call' = [call EXCEPT ![t] = CallOf("terminate", None, "", "")]
    /\ IF ~started[b] \/ terminated[b]
       THEN /\ pc' = [pc EXCEPT ![t] = "returned"]
            /\ result' = [result EXCEPT ![t] = Ok]
            /\ UNCHANGED <<terminated, stream_thread>>
       ELSE /\ terminated' = [terminated EXCEPT ![b] = TRUE]
            /\ pc' = NotifyAll([pc EXCEPT ![t] = "join"], b)
            /\ stream_thread' = NotifySender(stream_thread, b)
            /\ result' = [result EXCEPT ![t] = NoResult]
    /\ UNCHANGED <<started, peer_terminated, channel, alive, iterVars, peerVars, received_data>>
    /\ UNCHANGED <<stream_queue, yielded>>

\* `self._stream_thread.join()` returns once the sender thread has ended
terminate_join(t) ==
    /\ pc[t] = "join"
    /\ alive[Owner(t)]
    /\ stream_thread[Owner(t)] = "done"
    /\ pc' = [pc EXCEPT ![t] = "close"]
    /\ UNCHANGED <<lifeVars, iterVars, peerVars, received_data, stream_queue, senderVars>>
    /\ UNCHANGED <<call, result>>

\* `self._channel.close()`, then terminate() returns
terminate_close(t) ==
    LET b == Owner(t) IN
    /\ pc[t] = "close"
    /\ alive[b]
    /\ channel' = [channel EXCEPT ![b] = "closed"]
    /\ pc' = [pc EXCEPT ![t] = "returned"]
    /\ result' = [result EXCEPT ![t] = Ok]
    /\ UNCHANGED <<started, terminated, peer_terminated, alive, iterVars, peerVars>>
    /\ UNCHANGED <<received_data, stream_queue, senderVars, call>>

\* Bridge._channel_callback: PEER_CLOSED sets the flag and wakes every
\* waiter; ERROR ends the process (os._exit(138))
channel_callback(b, event) ==
    /\ alive[b]
    /\ IF event = "PEER_CLOSED"
       THEN /\ peer_terminated' = [peer_terminated EXCEPT ![b] = TRUE]
            /\ pc' = NotifyAll(pc, b)
            /\ stream_thread' = NotifySender(stream_thread, b)
            /\ UNCHANGED alive
       ELSE /\ event = "ERROR"
            /\ alive' = [alive EXCEPT ![b] = FALSE]
            /\ UNCHANGED <<peer_terminated, pc, stream_thread>>
    /\ UNCHANGED <<started, terminated, channel, iterVars, peerVars, received_data>>
    /\ UNCHANGED <<stream_queue, yielded, call, result>>

\* the caller takes the returned value or the raised error and goes on
caller_continues(t) ==
    /\ pc[t] = "returned"
    /\ alive[Owner(t)]
    /\ pc' = [pc EXCEPT ![t] = "idle"]
    /\ call' = [call EXCEPT ![t] = NoCall]
    /\ result' = [result EXCEPT ![t] = NoResult]
    /\ UNCHANGED <<lifeVars, iterVars, peerVars, received_data, stream_queue, senderVars>>

\* ------------------------------------------------------ inbound messages
\* variant: only the committed test, not the repeated-start one
StartAccepted_unordered(b, id) == ~(peer_commit_iter_id[b] # None /\ id <= peer_commit_iter_id[b])

\* variant: only the repeated-start test, not the committed one
StartAccepted_uncommitted(b, id) == ~(peer_start_iter_id[b] # None /\ id <= peer_start_iter_id[b])

\* the start branch of _transmit_handler reaches its else
StartAccepted(b, id) ==
    /\ ~(peer_commit_iter_id[b] # None /\ id <= peer_commit_iter_id[b])
    /\ ~(peer_start_iter_id[b] # None /\ id <= peer_start_iter_id[b])

\* variant: the watermark is always _next_iter_id
DataWatermark_next(b) == next_iter_id[b]

\* `self._current_iter_id if self._current_iter_id is not None else self._next_iter_id`
DataWatermark(b) == IF current_iter_id[b] # None THEN current_iter_id[b] ELSE next_iter_id[b]

\* variant: data of the watermark iteration itself is dropped as well
DataAccepted_strict(b, id) ==
    /\ peer_start_iter_id[b] # None
    /\ peer_start_iter_id[b] = id
    /\ ~(id <= DataWatermark(b))

\* the data branch of _transmit_handler reaches the store
DataAccepted(b, id) ==
    /\ peer_start_iter_id[b] # None
    /\ peer_start_iter_id[b] = id
    /\ ~(id < DataWatermark(b))

\* variant: a commit that does not match the open peer iteration is taken
CommitAccepted_unmatched(b, id) ==
    /\ ~(peer_commit_iter_id[b] # None /\ id <= peer_commit_iter_id[b])
    /\ peer_start_iter_id[b] # None

\* variant: the commit branch without its tests
CommitAccepted_unchecked(b, id) == TRUE

\* the commit branch of _transmit_handler reaches its else
CommitAccepted(b, id) ==
    /\ ~(peer_commit_iter_id[b] # None /\ id <= peer_commit_iter_id[b])
    /\ peer_start_iter_id[b] # None
    /\ id = peer_start_iter_id[b]

\* Bridge._transmit_handler: one inbound request handled under the lock; a
\* request that is not accepted is logged and changes nothing
transmit_handler(b, request) ==
    LET id == request.iter_id
        hit == \/ request.kind = "start" /\ StartAccepted(b, id)
               \/ request.kind = "data" /\ DataAccepted(b, id)
               \/ request.kind = "commit" /\ CommitAccepted(b, id)
    IN
    /\ alive[b]
    /\ peer_start_iter_id' = [peer_start_iter_id EXCEPT ![b] = IF request.kind = "start" /\ hit THEN id ELSE IF request.kind = "commit" /\ hit THEN None ELSE @]
    /\ peer_commit_iter_id' = [peer_commit_iter_id EXCEPT ![b] = IF request.kind = "commit" /\ hit THEN id ELSE @]
    /\ received_data' = [received_data EXCEPT ![b] = IF request.kind = "data" /\ hit THEN Store(@, id, request.name, request) ELSE @]
    /\ pc' = IF hit THEN NotifyAll(pc, b) ELSE pc
    /\ stream_thread' = IF hit THEN NotifySender(stream_thread, b) ELSE stream_thread
    /\ UNCHANGED <<lifeVars, iterVars, stream_queue, yielded, call, result>>

\* the transport hands requests to the servicer while the channel is
\* connected and the peer has not closed
ChannelDelivers(b) == channel[b] = "connected" /\ ~peer_terminated[b]

\* TrainerWorkerServicer.StreamTransmit: each request of the inbound stream
\* goes to _transmit_handler
StreamTransmit(b, request) ==
    /\ ChannelDelivers(b)
    /\ transmit_handler(b, request)

\* the transport reports a lifecycle event of a connected channel
ChannelEvent(b, event) ==
    /\ channel[b] = "connected"
    /\ channel_callback(b, event)

\* --------------------------------------------------------------- receive
\* variant: the peer-committed test is `iter_id < peer_commit_iter_id`
ReceiveOutcome_below(b, i, n) ==
    IF Has(received_data[b], i, n) THEN Returns(MakeNdarray(received_data[b][i][n].tensor))
    ELSE IF peer_commit_iter_id[b] # None /\ i < peer_commit_iter_id[b] THEN PeerCommittedError
    ELSE IF peer_terminated[b] THEN PeerTerminatedError
    ELSE NoResult

\* variant: the fail-fast conditions are tested before the stored entry
ReceiveOutcome_failfast_first(b, i, n) ==
    IF peer_commit_iter_id[b] # None /\ i <= peer_commit_iter_id[b] THEN PeerCommittedError
    ELSE IF peer_terminated[b] THEN PeerTerminatedError
    ELSE IF Has(received_data[b], i, n) THEN Returns(MakeNdarray(received_data[b][i][n].tensor))
    ELSE NoResult

\* Bridge._receive, one evaluation of its loop under the lock, and
\* Bridge.receive's tf.make_ndarray of the stored tensor: the entry if it
\* is there, else one of the two errors, else (NoResult) another wait
ReceiveOutcome(b, i, n) ==
    IF Has(received_data[b], i, n) THEN Returns(MakeNdarray(received_data[b][i][n].tensor))
    ELSE IF peer_commit_iter_id[b] # None /\ i <= peer_commit_iter_id[b] THEN PeerCommittedError
    ELSE IF peer_terminated[b] THEN PeerTerminatedError
    ELSE NoResult

receive_loop(t, c) ==
    LET r == ReceiveOutcome(Owner(t), c.iter_id, c.name) IN
    /\ result' = [result EXCEPT ![t] = r]
    /\ pc' = [pc EXCEPT ![t] = IF r = NoResult THEN "receive_wait" ELSE "returned"]
    /\ UNCHANGED <<lifeVars, iterVars, peerVars, received_data, stream_queue, senderVars>>

\* Bridge.receive
receive(t, i, n) ==
    /\ pc[t] = "idle"
    /\ alive[Owner(t)]
    /\ call' = [call EXCEPT ![t] = CallOf("receive", i, n, "")]
    /\ receive_loop(t, CallOf("receive", i, n, ""))

\* `self._condition.wait(wait_timeout)` returns (notified or timed out) and
\* the loop condition is evaluated again
receive_wake(t) ==
    /\ pc[t] = "receive_wait"
    /\ alive[Owner(t)]
    /\ receive_loop(t, call[t])
    /\ UNCHANGED call

\* ------------------------------------------------------------ histories
\* The history variables are written here, from what a step did to the
\* Bridge's own state, and read only by the properties.

\* thread t's call began, resp. ended (returned or raised), in this step
Began(t) == pc[t] = "idle" /\ pc'[t] # "idle"
Completed(t) == pc[t] # "returned" /\ pc'[t] = "returned"
CompletedOk(b, op) == \E t \in Threads : Owner(t) = b /\ Completed(t) /\ call'[t].op = op /\ result'[t].kind = "return"

\* enqueued: every message appended to the outbound queue, in order;
\* sent: every message the sender yielded to the transport, in order
RecordQueue ==
    /\ enqueued' = [b \in Bridges |-> IF Len(stream_queue'[b]) > Len(stream_queue[b]) THEN Append(enqueued[b], stream_queue'[b][Len(stream_queue'[b])]) ELSE enqueued[b]]
    /\ sent' = [b \in Bridges |-> IF yielded[b] # NoMsg /\ yielded'[b] = NoMsg THEN Append(sent[b], yielded[b]) ELSE sent[b]]

\* term_mark: how many messages had been appended, and how many were
\* queued, when terminate() set the flag; term_returned: whether a
\* terminate() call has returned, and whether one did on a started Bridge
RecordTerminate ==
    /\ term_mark' = [b \in Bridges |-> IF ~terminated[b] /\ terminated'[b] THEN [enq |-> Len(enqueued[b]), queued |-> Len(stream_queue[b])] ELSE term_mark[b]]
    /\ term_returned' = [b \in Bridges |-> IF ~CompletedOk(b, "terminate") THEN term_returned[b] ELSE IF started[b] \/ term_returned[b] = "started" THEN "started" ELSE "unstarted"]

\* commits_done: the commit() calls that returned; open_iter: the id of
\* the start() call that got past its checks and has no commit() yet
RecordIter ==
    /\ commits_done' = [b \in Bridges |-> IF CompletedOk(b, "commit") THEN commits_done[b] + 1 ELSE commits_done[b]]
    /\ open_iter' = [b \in Bridges |-> IF \E t \in Threads : Owner(t) = b /\ Began(t) /\ call'[t].op = "start" /\ result'[t].kind # "raise" THEN current_iter_id'[b] ELSE IF \E t \in Threads : Owner(t) = b /\ Began(t) /\ call'[t].op = "commit" /\ result'[t] # AssertionError THEN None ELSE open_iter[b]]

\* accepted: the payloads stored for (i, n) since iteration i was last
\* committed locally, the most recent one flagged "last"
Accept(acc, i, n, x) == {a \in acc : ~(a[1] = i /\ a[2] = n /\ a[3] = x)} \cup {<<i, n, x, "last">>}
Demote(acc, i, n) == {<<a[1], a[2], a[3], IF a[1] = i /\ a[2] = n THEN "old" ELSE a[4]>> : a \in acc}
Forget(acc, i) == {a \in acc : a[1] # i}
StoredNow(b) == {k \in IterIds \X Names : Has(received_data'[b], k[1], k[2]) /\ (~Has(received_data[b], k[1], k[2]) \/ received_data'[b][k[1]][k[2]] # received_data[b][k[1]][k[2]])}
CommittedNow(b) == {call'[t].iter_id : t \in {u \in Threads : Owner(u) = b /\ Completed(u) /\ call'[u].op = "commit" /\ result'[u].kind = "return"}}

RecordData ==
    accepted' = [b \in Bridges |-> IF CommittedNow(b) # {} THEN {a \in accepted[b] : a[1] \notin CommittedNow(b)} ELSE IF StoredNow(b) # {} THEN LET k == CHOOSE k \in StoredNow(b) : TRUE IN Accept(Demote(accepted[b], k[1], k[2]), k[1], k[2], MakeNdarray(received_data'[b][k[1]][k[2]].tensor)) ELSE accepted[b]]

\* applied: the inbound requests that _transmit_handler accepted (took
\* the branch that assigns) so far, with a mark once one of them has
\* arrived again
Again == <<NoMsg, "redelivered">>
Accepts(b, request) ==
    \/ request.kind = "start" /\ StartAccepted(b, request.iter_id)
    \/ request.kind = "data" /\ DataAccepted(b, request.iter_id)
    \/ request.kind = "commit" /\ CommitAccepted(b, request.iter_id)
RecordInbound(b, request) == applied' = [applied EXCEPT ![b] = IF <<request, "accepted">> \in @ THEN @ \cup {Again} ELSE IF Accepts(b, request) THEN @ \cup {<<request, "accepted">>} ELSE @]

\* waited: the thread's current call has blocked in Condition.wait()
RecordWait ==
    waited' = [t \in Threads |-> IF pc'[t] \in {"receive_wait", "transmit_wait"} THEN TRUE ELSE IF pc'[t] = "idle" THEN FALSE ELSE waited[t]]

\* ------------------------------------------------------- specification
\* Spec: the iteration protocol of one Bridge, "A", used by one caller
\* thread (connect, start, commit, receive). The peer is the environment:
\* any request may arrive on the inbound stream, in any order and
\* repeatedly, and the channel may report PEER_CLOSED.
Protocol == RecordIter /\ RecordWait /\ UNCHANGED <<accepted, enqueued, sent, term_mark, term_returned, script, delivered, applied>>

Next ==
    \/ connect("a1") /\ Protocol
    \/ \E i \in IterIds : start("a1", i) /\ Protocol
    \/ commit("a1") /\ Protocol
    \/ \E i \in IterIds : \E n \in Names : receive("a1", i, n) /\ Protocol
    \/ TransmitResume("a1") /\ Protocol
    \/ receive_wake("a1") /\ Protocol
    \/ caller_continues("a1") /\ Protocol
    \/ stream_generator("A") /\ Protocol
    \/ stream_yield("A") /\ Protocol
    \/ \E request \in Requests : StreamTransmit("A", request) /\ Protocol
    \/ ChannelEvent("A", "PEER_CLOSED") /\ Protocol

Spec == Init /\ [][Next]_vars

\* SpecReceive: the same Bridge with start(new_iter_id()) as the trainer
\* calls it, recording the accepted payloads. Condition.wait(wait_timeout)
\* in _receive returns after at most the alert timeout, so a waiting
\* receive is always scheduled again: weak fairness of receive_wake.
Receiving == RecordIter /\ RecordWait /\ RecordData /\ UNCHANGED <<enqueued, sent, term_mark, term_returned, script, delivered, applied>>

NextReceive ==
    \/ connect("a1") /\ Receiving
    \/ start("a1", next_iter_id["A"]) /\ Receiving
    \/ commit("a1") /\ Receiving
    \/ \E i \in IterIds : \E n \in Names : receive("a1", i, n) /\ Receiving
    \/ TransmitResume("a1") /\ Receiving
    \/ receive_wake("a1") /\ Receiving
    \/ caller_continues("a1") /\ Receiving
    \/ stream_generator("A") /\ Receiving
    \/ stream_yield("A") /\ Receiving
    \/ \E request \in Requests : StreamTransmit("A", request) /\ Receiving
    \/ ChannelEvent("A", "PEER_CLOSED") /\ Receiving

SpecReceive == Init /\ [][NextReceive]_vars /\ WF_vars(receive_wake("a1") /\ Receiving)

\* SpecQueue: the outbound queue and the lifecycle of Bridge "A" with the
\* sender thread and two caller threads: a1, the trainer's main thread
\* (connect, terminate, start, commit, send), and a2, which connects,
\* terminates and sends concurrently. What is appended and what is sent is
\* recorded.
Pending(b) == Cardinality({u \in Threads : Owner(u) = b /\ pc[u] \in {"transmit_wait", "transmit_ready"}})
MayEnqueue(b) == terminated[b] \/ Len(enqueued[b]) + Pending(b) < MaxEnqueue
Queueing == RecordQueue /\ RecordTerminate /\ RecordIter /\ RecordWait /\ UNCHANGED <<accepted, script, delivered, applied>>
QueueCallers == {"a1", "a2"}

NextQueue ==
    \/ \E t \in QueueCallers : connect(t) /\ Queueing
    \/ \E t \in QueueCallers : terminate(t) /\ Queueing
    \/ \E t \in QueueCallers : terminate_join(t) /\ Queueing
    \/ \E t \in QueueCallers : terminate_close(t) /\ Queueing
    \/ \E i \in IterIds : MayEnqueue("A") /\ start("a1", i) /\ Queueing
    \/ MayEnqueue("A") /\ commit("a1") /\ Queueing
    \/ \E t \in QueueCallers : MayEnqueue("A") /\ send(t, 0, "loss", "P") /\ Queueing
    \/ \E t \in QueueCallers : TransmitResume(t) /\ Queueing
    \/ \E t \in QueueCallers : caller_continues(t) /\ Queueing
    \/ stream_generator("A") /\ Queueing
    \/ stream_yield("A") /\ Queueing

SpecQueue == Init /\ [][NextQueue]_vars

\* SpecE2E: two Bridges, "A" and "B", joined by a reliable, in-order
\* channel: what A's sender yields is delivered to B's servicer in that
\* order, and the other way round. Thread a1 runs A's side of the exchange
\* and b1 runs B's; an error raised to a caller ends its script. Threads,
\* senders and the channel are scheduled fairly.
ScriptA == <<CallOf("connect", None, "", ""), CallOf("start", 0, "", ""), CallOf("send", 0, "loss", "P"), CallOf("commit", None, "", "")>>
ScriptB == <<CallOf("connect", None, "", ""), CallOf("receive", 0, "loss", ""), CallOf("start", 0, "", ""), CallOf("commit", None, "", "")>>

InitE2E ==
    /\ InitBridge
    /\ script = [t \in Threads |-> IF t = "a1" THEN ScriptA ELSE IF t = "b1" THEN ScriptB ELSE <<>>]

Exchange == RecordQueue /\ RecordIter /\ RecordWait /\ RecordData /\ UNCHANGED <<term_mark, term_returned, applied>>
Scripted(t, op) == script[t] # <<>> /\ Head(script[t]).op = op /\ script' = [script EXCEPT ![t] = Tail(@)] /\ UNCHANGED delivered
Unscripted == UNCHANGED <<script, delivered>>

\* the channel passes the next message of the peer's outbound stream to
\* this side's StreamTransmit
Deliver(b) ==
    /\ delivered[b] < Len(sent[Peer(b)])
    /\ StreamTransmit(b, sent[Peer(b)][delivered[b] + 1])
    /\ delivered' = [delivered EXCEPT ![b] = @ + 1]
    /\ UNCHANGED script

CallerStep(t) ==
    \/ Scripted(t, "connect") /\ connect(t) /\ Exchange
    \/ Scripted(t, "start") /\ start(t, Head(script[t]).iter_id) /\ Exchange
    \/ Scripted(t, "send") /\ send(t, Head(script[t]).iter_id, Head(script[t]).name, Head(script[t]).x) /\ Exchange
    \/ Scripted(t, "commit") /\ commit(t) /\ Exchange
    \/ Scripted(t, "receive") /\ receive(t, Head(script[t]).iter_id, Head(script[t]).name) /\ Exchange
    \/ TransmitResume(t) /\ Exchange /\ Unscripted
    \/ receive_wake(t) /\ Exchange /\ Unscripted
    \/ result[t].kind = "return" /\ caller_continues(t) /\ Exchange /\ Unscripted

SenderStep(b) ==
    \/ stream_generator(b) /\ Exchange /\ Unscripted
    \/ stream_yield(b) /\ Exchange /\ Unscripted

NextE2E ==
    \/ \E t \in {"a1", "b1"} : CallerStep(t)
    \/ \E b \in Bridges : SenderStep(b)
    \/ \E b \in Bridges : Deliver(b) /\ Exchange

FairE2E == (\A t \in {"a1", "b1"} : WF_vars(CallerStep(t))) /\ (\A b \in Bridges : WF_vars(SenderStep(b)) /\ WF_vars(Deliver(b) /\ Exchange))

SpecE2E == InitE2E /\ [][NextE2E]_vars /\ FairE2E

\* SpecSession: a whole session of Bridge "A" with the trainer thread
\* (connect, start(new_iter_id()), commit, terminate), the sender thread
\* and the peer as the environment of the inbound stream.
Session == RecordIter /\ RecordWait /\ RecordTerminate /\ UNCHANGED <<accepted, enqueued, sent, script, delivered, applied>>

NextSession ==
    \/ connect("a1") /\ Session
    \/ terminate("a1") /\ Session
    \/ terminate_join("a1") /\ Session
    \/ terminate_close("a1") /\ Session
    \/ start("a1", next_iter_id["A"]) /\ Session
    \/ commit("a1") /\ Session
    \/ TransmitResume("a1") /\ Session
    \/ caller_continues("a1") /\ Session
    \/ stream_generator("A") /\ Session
    \/ stream_yield("A") /\ Session
    \/ \E request \in Requests : StreamTransmit("A", request) /\ Session

SpecSession == Init /\ [][NextSession]_vars

\* SpecInbound: the inbound side of Bridge "A". The peer, or a resending
\* transport, may put any request on the stream at any time and in any
\* order; the local trainer thread connects and runs its iterations with
\* start(new_iter_id()) and commit(); the channel may report PEER_CLOSED.
\* The sender thread is not scheduled: what the caller enqueues stays in
\* the outbound queue, which no inbound rule reads. The accepted requests
\* are recorded.
Inbound == RecordIter /\ RecordWait /\ UNCHANGED <<accepted, enqueued, sent, term_mark, term_returned, script, delivered>>

NextInbound ==
    \/ connect("a1") /\ Inbound /\ UNCHANGED applied
    \/ start("a1", next_iter_id["A"]) /\ Inbound /\ UNCHANGED applied
    \/ commit("a1") /\ Inbound /\ UNCHANGED applied
    \/ caller_continues("a1") /\ Inbound /\ UNCHANGED applied
    \/ \E request \in Requests : StreamTransmit("A", request) /\ RecordInbound("A", request) /\ Inbound
    \/ ChannelEvent("A", "PEER_CLOSED") /\ Inbound /\ UNCHANGED applied

SpecInbound == Init /\ [][NextInbound]_vars

\* SpecWatermark: the inbound side of Bridge "A" while the local caller
\* opens iterations with any id, start(i), so that current_iter_id and
\* next_iter_id differ. The sender thread is not scheduled.
NextWatermark ==
    \/ connect("a1") /\ Protocol
    \/ \E i \in IterIds : start("a1", i) /\ Protocol
    \/ commit("a1") /\ Protocol
    \/ caller_continues("a1") /\ Protocol
    \/ \E request \in Requests : StreamTransmit("A", request) /\ Protocol
    \/ ChannelEvent("A", "PEER_CLOSED") /\ Protocol

SpecWatermark == Init /\ [][NextWatermark]_vars

\* SpecContend: Bridge "A" under contention for the outbound queue. Thread
\* a1 is the trainer's main thread (connect, start, commit), a2 and a3 run
\* send ops, a4 terminates the Bridge, and the sender thread drains the
\* queue; no enqueue call is begun after terminate(). A thread that can run does run, and the transport keeps pulling
\* from the sender's generator: weak fairness of the resuming producers,
\* of the callers' returns and of the sender's steps.
Producers == {"a1", "a2", "a3"}
MayContend(b) == ~terminated[b] /\ Len(enqueued[b]) + Pending(b) < StreamQueueSize + MaxBlocked

NextContend ==
    \/ connect("a1") /\ Queueing
    \/ MayContend("A") /\ start("a1", next_iter_id["A"]) /\ Queueing
    \/ MayContend("A") /\ commit("a1") /\ Queueing
    \/ \E t \in {"a2", "a3"} : MayContend("A") /\ send_op(t, "loss", "P") /\ Queueing
    \/ terminate("a4") /\ Queueing
    \/ terminate_join("a4") /\ Queueing
    \/ terminate_close("a4") /\ Queueing
    \/ \E t \in Producers : TransmitResume(t) /\ Queueing
    \/ \E t \in Producers : caller_continues(t) /\ Queueing
    \/ stream_generator("A") /\ Queueing
    \/ stream_yield("A") /\ Queueing

FairContend == (\A t \in Producers : WF_vars(TransmitResume(t) /\ Queueing)) /\ WF_vars(stream_generator("A") /\ Queueing) /\ WF_vars(stream_yield("A") /\ Queueing)

SpecContend == Init /\ [][NextContend]_vars /\ FairContend

\* ------------------------------------------------------------ properties
\* C1: in the exchange A: start(0), send(0, "loss", P), commit() and
\* B: receive(0, "loss"), start(0), commit(), B's receive eventually
\* returns P and never raises, and once A's commit() has returned A's
\* received_data has no entry for iteration 0
C1_EndToEnd == <>(pc["b1"] = "returned" /\ call["b1"].op = "receive" /\ result["b1"] = Returns("P")) /\ [](~(call["b1"].op = "receive" /\ result["b1"].kind = "raise")) /\ [](commits_done["A"] >= 1 => 0 \notin DOMAIN received_data["A"])

\* B called receive after A's Commit{0} had been delivered and got P at once
C1_Witness == pc["b1"] = "returned" /\ call["b1"].op = "receive" /\ result["b1"] = Returns("P") /\ ~waited["b1"] /\ peer_commit_iter_id["B"] = 0 /\ commits_done["A"] = 1

ReceiveEnded(t) == Completed(t) /\ call'[t].op = "receive"
FailFast(b, i) == (peer_commit_iter_id[b] # None /\ peer_commit_iter_id[b] >= i) \/ peer_terminated[b]
IsRuntimeError(r) == r \in {PeerCommittedError, PeerTerminatedError, TerminatedError}

\* C2 as claimed: a receive(i, n) that ends returns P for every Data{i, n, P}
\* that was accepted and stored since iteration i was last committed locally
C2_ReturnsAnyStoredPayload == [][\A t \in Threads : ReceiveEnded(t) => \A a \in accepted[Owner(t)] : (a[1] = call'[t].iter_id /\ a[2] = call'[t].name) => result'[t] = Returns(a[3])]_vars

\* C2 amended: a receive(i, n) that ends while a payload accepted for (i, n)
\* since the last local commit of i is stored returns the payload accepted
\* most recently, also when peer_commit_iter_id >= i or peer_terminated holds
C2_ReturnsLastStoredPayload == [][\A t \in Threads : ReceiveEnded(t) => \A a \in accepted[Owner(t)] : (a[1] = call'[t].iter_id /\ a[2] = call'[t].name /\ a[4] = "last") => result'[t] = Returns(a[3])]_vars

\* a receive that had blocked returned the payload although the peer had
\* committed the iteration and closed by then
C2_Witness == pc["a1"] = "returned" /\ call["a1"].op = "receive" /\ waited["a1"] /\ result["a1"] = Returns("Q") /\ peer_terminated["A"] /\ peer_commit_iter_id["A"] >= call["a1"].iter_id /\ <<call["a1"].iter_id, "loss", "P", "old">> \in accepted["A"]

\* C3: a receive(i, n) blocked with no entry for (i, n) stays blocked unless
\* peer_commit_iter_id >= i or peer_terminated holds, in which case it ends
\* with a RuntimeError and not with a value; and once one of the two holds
\* while it is blocked it eventually ends with that error
C3_BlockedReceiveStep == [][\A t \in Threads : (pc[t] = "receive_wait" /\ ~Has(received_data[Owner(t)], call[t].iter_id, call[t].name)) => IF FailFast(Owner(t), call[t].iter_id) THEN pc'[t] = "receive_wait" \/ (pc'[t] = "returned" /\ IsRuntimeError(result'[t])) ELSE pc'[t] = "receive_wait" /\ result'[t] = NoResult]_vars
C3_BlockedReceiveFails == \A t \in {"a1"} : (pc[t] = "receive_wait" /\ ~Has(received_data[Owner(t)], call[t].iter_id, call[t].name) /\ FailFast(Owner(t), call[t].iter_id)) ~> (pc[t] = "returned" /\ IsRuntimeError(result[t]))
C3_BlockedReceive == C3_BlockedReceiveStep /\ C3_BlockedReceiveFails

\* a receive that had blocked ended with the peer-committed error
C3_Witness == pc["a1"] = "returned" /\ call["a1"].op = "receive" /\ waited["a1"] /\ result["a1"] = PeerCommittedError /\ ~peer_terminated["A"]

\* C10: a start() called while current_iter_id is set and a commit() called
\* while it is unset raise AssertionError and leave current_iter_id,
\* next_iter_id, received_data and the outbound queue as they were
C10_PreconditionFailure == [][\A t \in Threads : (Began(t) /\ ((call'[t].op = "start" /\ current_iter_id[Owner(t)] # None) \/ (call'[t].op = "commit" /\ current_iter_id[Owner(t)] = None))) => (pc'[t] = "returned" /\ result'[t] = AssertionError /\ UNCHANGED <<current_iter_id, next_iter_id, received_data, stream_queue>>)]_vars

\* a start() failed on an open iteration with data buffered and a message queued
C10_Witness == pc["a1"] = "returned" /\ call["a1"].op = "start" /\ result["a1"] = AssertionError /\ current_iter_id["A"] # None /\ received_data["A"] # <<>> /\ stream_queue["A"] # <<>>

InHand(b) == IF yielded[b] = NoMsg THEN <<>> ELSE <<yielded[b]>>

\* C4: the messages handed to the transport are, in order, the first of
\* the messages appended to the outbound queue; the one the sender holds
\* and those still queued are the rest
C4_SentInEnqueueOrder == \A b \in Bridges : enqueued[b] = sent[b] \o InHand(b) \o stream_queue[b]

\* Start{0} and Data{0} were sent in call order and Commit{0} is queued
C4_Witness == sent["A"] = <<StartMessage(0), DataMessage(0, "loss", MakeTensorProto("P"))>> /\ stream_queue["A"] = <<CommitMessage(0)>>

\* C5: the outbound queue never holds more than its capacity, a message is
\* appended only to a queue that is not full, and a producer blocked in
\* wait() appends nothing before it has been woken
C5_QueueWithinCapacity == [][(\A b \in Bridges : Len(stream_queue'[b]) <= StreamQueueSize /\ (Len(stream_queue'[b]) > Len(stream_queue[b]) => Len(stream_queue[b]) < StreamQueueSize)) /\ (\A t \in Threads : pc[t] = "transmit_wait" => pc'[t] \in {"transmit_wait", "transmit_ready"})]_vars

\* a producer that had blocked on the full queue has appended its message
C5_Witness == \E t \in Threads : pc[t] = "returned" /\ waited[t] /\ call[t].op = "send" /\ result[t] = Ok /\ Len(stream_queue["A"]) = StreamQueueSize

\* C6: the sender stops only when terminated with the queue empty, and by
\* then, and before terminate() closes the channel, every message appended
\* before terminate() set the flag has been handed to the transport
Drained(b) == Len(sent[b]) >= term_mark[b].enq /\ SubSeq(sent[b], 1, term_mark[b].enq) = SubSeq(enqueued[b], 1, term_mark[b].enq)
C6_TerminateDrains == [][\A b \in Bridges : ((stream_thread[b] # "done" /\ stream_thread'[b] = "done") => (terminated[b] /\ stream_queue[b] = <<>> /\ Drained(b))) /\ ((channel[b] # "closed" /\ channel'[b] = "closed") => (stream_thread[b] = "done" /\ Drained(b)))]_vars

\* terminate() was called with a full queue and has closed the channel
C6_Witness == channel["A"] = "closed" /\ term_mark["A"].queued = StreamQueueSize /\ stream_queue["A"] = <<>>

EnqueueAttempt(t) == Began(t) /\ call'[t].op \in {"start", "commit", "send"} /\ result'[t] # AssertionError

\* C7 as claimed: once any terminate() call has returned, connected or not,
\* every enqueue attempt fails with the terminated error and appends nothing
C7_AfterAnyTerminate == [][\A t \in Threads : (term_returned[Owner(t)] # "no" /\ EnqueueAttempt(t)) => (pc'[t] = "returned" /\ result'[t] = TerminatedError /\ stream_queue' = stream_queue)]_vars

\* C7 amended: once a terminate() call made on a connected Bridge has
\* returned, every enqueue attempt fails with the terminated error and
\* appends nothing
C7_AfterConnectedTerminate == [][\A t \in Threads : (term_returned[Owner(t)] = "started" /\ EnqueueAttempt(t)) => (pc'[t] = "returned" /\ result'[t] = TerminatedError /\ stream_queue' = stream_queue)]_vars

\* a send() after a returned terminate() failed with the terminated error
C7_Witness == \E t \in Threads : term_returned["A"] = "started" /\ channel["A"] = "closed" /\ pc[t] = "returned" /\ call[t].op = "send" /\ result[t] = TerminatedError

CommitInProgress(b) == \E t \in Threads : Owner(t) = b /\ call[t].op = "commit" /\ pc[t] \in {"transmit_wait", "transmit_ready"}

\* C8 as claimed: whenever no commit() is in progress, next_iter_id is the
\* number of commit() calls that have returned
C8_NextIterCountsCommits == \A b \in Bridges : ~CommitInProgress(b) => next_iter_id[b] = commits_done[b]

\* C9 as claimed: current_iter_id is the id of the start() call that got
\* past its checks and has had no commit() since, and is None otherwise
C9_CurrentIterOpenOnly == \A b \in Bridges : current_iter_id[b] = open_iter[b]

CommitEnded(t) == Completed(t) /\ call'[t].op = "commit" /\ result'[t] # AssertionError

\* C11 as claimed: when a commit() called with current_iter_id = i has
\* finished, received_data has no entry for iteration i
C11_CommitDiscards == [][\A t \in Threads : CommitEnded(t) => call'[t].iter_id \notin DOMAIN received_data'[Owner(t)]]_vars

IterCall(t) == call'[t].op \in {"start", "commit"}
MustWait(t) == Len(stream_queue[Owner(t)]) = StreamQueueSize /\ ~terminated[Owner(t)] /\ result'[t] # AssertionError

\* C12 as claimed: a start() or commit() call never waits on the
\* condition variable
C12_NeverBlocks == \A t \in Threads : call[t].op \in {"start", "commit"} => pc[t] # "transmit_wait"

\* C12 amended: a start() or commit() call waits on the condition variable
\* exactly when its precondition holds, the Bridge is not terminated and
\* the outbound queue is at capacity, and it waits again after a wake-up
\* only if the queue is at capacity; otherwise it completes at once
C12_BlocksOnlyWhenFull == [][\A t \in Threads : (Began(t) /\ IterCall(t) => IF MustWait(t) THEN pc'[t] = "transmit_wait" ELSE pc'[t] = "returned") /\ (pc[t] = "transmit_ready" /\ IterCall(t) /\ pc'[t] # pc[t] => IF Len(stream_queue[Owner(t)]) = StreamQueueSize THEN pc'[t] = "transmit_wait" ELSE pc'[t] = "returned")]_vars

\* a start() that had waited on the full queue has returned
C12_Witness == pc["a1"] = "returned" /\ call["a1"].op = "start" /\ waited["a1"] /\ result["a1"] = Ok

Redelivered(request) == <<request, "accepted">> \in applied["A"] /\ StreamTransmit("A", request)

\* C13 as claimed, for a request that was accepted earlier in the session:
\* processing it again leaves peer_start_iter_id, peer_commit_iter_id and
\* received_data as they were
C13_ResendLeavesState == [][\A request \in Requests : Redelivered(request) => UNCHANGED <<peer_start_iter_id, peer_commit_iter_id, received_data>>]_vars

StillOpen(request) == request.kind = "data" /\ peer_start_iter_id["A"] = request.iter_id /\ request.iter_id >= DataWatermark("A")

\* C13 amended: processing again a request that was accepted earlier leaves
\* peer_start_iter_id and peer_commit_iter_id as they were, and
\* received_data too unless it is a Data of the peer's open iteration and
\* not below the local watermark: then its payload is the stored one
\* afterwards and nothing else in received_data changes
C13_ResendRestores == [][\A request \in Requests : Redelivered(request) => (UNCHANGED <<peer_start_iter_id, peer_commit_iter_id>> /\ IF StillOpen(request) THEN (received_data'["A"][request.iter_id][request.name] = request /\ \A k \in IterIds \X Names : (k # <<request.iter_id, request.name>> /\ Has(received_data'["A"], k[1], k[2])) => (Has(received_data["A"], k[1], k[2]) /\ received_data'["A"][k[1]][k[2]] = received_data["A"][k[1]][k[2]])) ELSE UNCHANGED received_data)]_vars

\* accepted requests have arrived again, Commit{0} is among the accepted,
\* and the peer's watermark, its next open iteration and the data stored
\* for iteration 0 are in place
C13_Witness == Again \in applied["A"] /\ <<CommitMessage(0), "accepted">> \in applied["A"] /\ peer_start_iter_id["A"] = 1 /\ peer_commit_iter_id["A"] = 0 /\ Has(received_data["A"], 0, "loss")

Handles(kind, request) == request.kind = kind /\ StreamTransmit("A", request)
LocalState == <<started, terminated, peer_terminated, channel, alive, current_iter_id, next_iter_id, stream_queue>>
StartRule(id) == (peer_commit_iter_id["A"] = None \/ id > peer_commit_iter_id["A"]) /\ (peer_start_iter_id["A"] = None \/ id > peer_start_iter_id["A"])
EarlierStarts == {j \in IterIds : <<StartMessage(j), "accepted">> \in applied["A"]}

\* C14: processing Start{id} sets peer_start_iter_id to id if and only if
\* id exceeds peer_commit_iter_id and peer_start_iter_id where they are
\* set, and otherwise changes nothing; the id of an accepted Start is
\* greater than the id of every Start accepted before it
C14_StartRule == [][\A request \in Requests : Handles("start", request) => IF StartRule(request.iter_id) THEN (peer_start_iter_id'["A"] = request.iter_id /\ UNCHANGED <<LocalState, peer_commit_iter_id, received_data>> /\ \A j \in EarlierStarts : j < request.iter_id) ELSE UNCHANGED <<LocalState, peer_start_iter_id, peer_commit_iter_id, received_data>>]_vars

\* Start{1} was accepted over the open, uncommitted peer iteration 0
C14_Witness == {<<StartMessage(0), "accepted">>, <<StartMessage(1), "accepted">>} \subseteq applied["A"] /\ peer_start_iter_id["A"] = 1 /\ peer_commit_iter_id["A"] = None

Watermark == IF current_iter_id["A"] # None THEN current_iter_id["A"] ELSE next_iter_id["A"]
DataRule(id) == peer_start_iter_id["A"] # None /\ peer_start_iter_id["A"] = id /\ id >= Watermark
OtherEntriesKept(id, n) == DOMAIN received_data'["A"] = DOMAIN received_data["A"] \cup {id} /\ \A k \in IterIds \X Names : k # <<id, n>> => (Has(received_data'["A"], k[1], k[2]) <=> Has(received_data["A"], k[1], k[2])) /\ (Has(received_data["A"], k[1], k[2]) => received_data'["A"][k[1]][k[2]] = received_data["A"][k[1]][k[2]])

\* C15: processing Data{id, name, payload} stores the payload under
\* received_data[id][name] if and only if peer_start_iter_id is set and
\* equals id and id is at least current_iter_id if that is set, else
\* next_iter_id; otherwise received_data is unchanged, with no new key;
\* nothing else changes in either case
C15_DataRule == [][\A request \in Requests : Handles("data", request) => (UNCHANGED <<LocalState, peer_start_iter_id, peer_commit_iter_id>> /\ IF DataRule(request.iter_id) THEN (Has(received_data'["A"], request.iter_id, request.name) /\ received_data'["A"][request.iter_id][request.name].tensor = request.tensor /\ OtherEntriesKept(request.iter_id, request.name)) ELSE UNCHANGED received_data)]_vars

\* a Data{1} is stored while the local iteration 1 is open ahead of
\* next_iter_id = 0, and nothing was created for iteration 0
C15_Witness == current_iter_id["A"] = 1 /\ next_iter_id["A"] = 0 /\ peer_start_iter_id["A"] = 1 /\ Has(received_data["A"], 1, "loss") /\ 0 \notin DOMAIN received_data["A"]

CommitRule(id) == peer_start_iter_id["A"] # None /\ peer_start_iter_id["A"] = id /\ (peer_commit_iter_id["A"] = None \/ id > peer_commit_iter_id["A"])

\* C16: processing Commit{id} clears peer_start_iter_id and sets
\* peer_commit_iter_id to id if and only if peer_start_iter_id is set and
\* equals id and id exceeds peer_commit_iter_id where that is set;
\* otherwise nothing changes; in both cases the Bridge stays alive and
\* unterminated and received_data is untouched
C16_CommitRule == [][\A request \in Requests : Handles("commit", request) => (UNCHANGED <<LocalState, received_data>> /\ alive'["A"] /\ IF CommitRule(request.iter_id) THEN (peer_start_iter_id'["A"] = None /\ peer_commit_iter_id'["A"] = request.iter_id) ELSE UNCHANGED <<peer_start_iter_id, peer_commit_iter_id>>)]_vars

\* the peer's iterations 0 and 1 were both committed, their data still
\* buffered
C16_Witness == peer_commit_iter_id["A"] = 1 /\ peer_start_iter_id["A"] = None /\ Has(received_data["A"], 0, "loss") /\ Has(received_data["A"], 1, "loss")

\* C17: in every step peer_commit_iter_id stays as it is or grows; once
\* set it is never unset
C17_PeerCommitMonotonic == [][\A b \in Bridges : peer_commit_iter_id'[b] >= peer_commit_iter_id[b] /\ (peer_commit_iter_id[b] # None => peer_commit_iter_id'[b] # None)]_vars

\* the peer's watermark is 1 after a local commit and the peer's close
C17_Witness == peer_commit_iter_id["A"] = 1 /\ peer_start_iter_id["A"] = None /\ next_iter_id["A"] = 1 /\ peer_terminated["A"]

\* C18: once terminated is set no step appends to the outbound queue (a
\* producer that was blocked on a full queue when terminate() was called
\* included); so when the sender has stopped the queue is empty, and every
\* message whose enqueue returned without error has been sent
C18_NoAppendOnceTerminated == [][\A b \in Bridges : (terminated[b] => Len(stream_queue'[b]) <= Len(stream_queue[b])) /\ (stream_thread'[b] = "done" => stream_queue'[b] = <<>> /\ sent'[b] = enqueued'[b])]_vars

\* C19: with the sender started and every thread scheduled fairly, a
\* producer blocked in _transmit on a full queue eventually completes its
\* call (it appends or it fails), however many producers are blocked and
\* also when terminate() is called while they are blocked
C19_BlockedProducerCompletes == \A t \in Threads : (pc[t] = "transmit_wait" /\ started[Owner(t)]) ~> pc[t] = "returned"

\* a start() or commit() call that has updated current_iter_id and
\* next_iter_id and is suspended in _transmit, the lock released, its
\* message not appended and (commit) received_data not discarded
Suspended(t) == call[t].op \in {"start", "commit"} /\ pc[t] \in {"transmit_wait", "transmit_ready"}
\* a Data of iteration i was appended to the queue before Start{i}
DataAheadOfStart(b) == \E j \in DOMAIN enqueued[b] : \E k \in 1..(j - 1) : enqueued[b][j].kind = "start" /\ enqueued[b][k].kind = "data" /\ enqueued[b][k].iter_id = enqueued[b][j].iter_id

\* C20: start() and commit() are atomic for the other threads that take
\* the lock: in no state in which the lock is free is a start() or commit()
\* call half done, and a Data{i} sent under the current_iter_id a thread
\* read is never appended to the queue ahead of Start{i}
C20_StartCommitAtomic == (\A t \in Threads : ~Suspended(t)) /\ (\A b \in Bridges : ~DataAheadOfStart(b))

====
